---- MODULE Spec2Model ----
(***************************************************************************)
(* flowlynk: the orchestration loop of createLynk (src/src/flowlynk.ts).   *)
(*                                                                         *)
(* The file holds two revisions of createLynk.  Revision A is lines 6-183, *)
(* revision B is lines 192-447.  One session (a createLynk(config) value)  *)
(* is modelled; its revision and its configuration are fixed by Init.      *)
(*                                                                         *)
(* A run() call is a process that runs to completion between its awaits    *)
(* (JavaScript's run-to-completion): awaiting the model, awaiting the      *)
(* observer onStep, awaiting the tool.  The loop head ("request") is a     *)
(* position inside one synchronous stretch; nothing else runs while a run  *)
(* stands there.                                                           *)
(*                                                                         *)
(* Environment assumptions: the observer onStep returns normally; a tool   *)
(* returns a JSON-serialisable value or throws.                            *)
(***************************************************************************)
EXTENDS Naturals, Sequences, FiniteSets, TLC

\* ------------------------------------------------------------------ bounds
\* run() calls made on the session
MaxRuns == 2
\* reset() calls made on the session
MaxResets == 1
\* model requests issued over the whole session
MaxRequests == 2

\* ------------------------------------------------------------------ values
\* A property that the object does not have (JavaScript's undefined).
Absent == "<absent>"
\* JSON null.
Null == "<null>"

\* JavaScript truthiness of a string-or-missing value.
Truthy(v) == v \notin {Absent, Null, ""}

\* a || b
OrElse(a, b) == IF Truthy(a) THEN a ELSE b

\* StepOutput: every field is optional on the wire.
StepOutput(step, content, function, input, status) ==
  [ty |-> "obj", step |-> step, content |-> content, function |-> function,
   input |-> input, status |-> status]

\* The other values JSON.parse can return.
JsonNull == [ty |-> "null"]
JsonPrim == [ty |-> "prim"]

\* v.f for a non-null value v: a primitive has none of the fields.
Get(v, f) == IF v.ty = "obj" THEN v[f] ELSE Absent

\* A value thrown (a rejected promise): an Error with a message, or a
\* nullish value (throw null, Promise.reject()).
Thrown(message) == [ty |-> "thrown", nullish |-> FALSE, message |-> message]
ThrownNullish == [ty |-> "thrown", nullish |-> TRUE, message |-> Absent]
IsThrown(v) == v.ty = "thrown"

\* No value: the slot is not in use.
NoVal == [ty |-> "none"]

\* JSON.stringify(v), kept as the value it serialises.
Stringify(v) == [ty |-> "json", of |-> v]

createErrorStep(message) == StepOutput("error", message, Null, Null, "false")

createOutputStep(content) == StepOutput("output", content, Null, Null, Absent)

\* ------------------------------------------------------------ configuration
Revisions == {"A", "B"}

\* Tool names a model may ask for: one that is registered, one that is not,
\* and one that every object inherits from Object.prototype.
RegisteredTool == "echo"
UnknownTool == "ghost"
InheritedName == "toString"

HistoryUser == [role |-> "user", content |-> [ty |-> "text", text |-> "earlier question"]]
HistorySystem == [role |-> "system", content |-> [ty |-> "text", text |-> "caller note"]]

\* config.history
Histories == {<< >>, <<HistoryUser, HistorySystem>>}

VARIABLES rev, apiKey, tools, history, messages, arrays, stepsRef, runs, resets

config == <<rev, apiKey, tools, history>>
vars == <<rev, apiKey, tools, history, messages, arrays, stepsRef, runs, resets>>

\* ------------------------------------------------- the model client's outcomes
\* What openai.chat.completions.create can do: reject with an error, resolve
\* without content, or resolve with a text.  A text is kept as what
\* JSON.parse makes of it (NotJson: a SyntaxError), and whether it is wrapped
\* in ```json fences.
NotJson == [ty |-> "notjson"]

ModelErrors ==
  { [kind |-> "error", message |-> "Connection error.", digits |-> Absent],
    [kind |-> "error", message |-> "", digits |-> "429"] }

\* The JSON objects a model may answer with.
ModelObjects ==
  { StepOutput(Absent, Absent, Absent, Absent, Absent),
    StepOutput("initiate", "plan", Null, Null, Absent),
    StepOutput("action", "call", Null, Null, Absent),
    StepOutput("action", "call", RegisteredTool, Null, Absent),
    StepOutput("action", "call", Null, "in1", Absent),
    StepOutput("action", "call", RegisteredTool, "in1", Absent),
    StepOutput("action", "call", UnknownTool, "in1", Absent),
    StepOutput("action", "call", InheritedName, "in1", Absent),
    StepOutput("initiate", "plan", RegisteredTool, "in1", Absent),
    StepOutput("output", "done", RegisteredTool, "in1", Absent) }
  \cup { StepOutput(k, c, Null, Null, Absent) :
           k \in {"demand", "output", "error"}, c \in {"", "done"} }

ModelTexts ==
  { [kind |-> "text", fenced |-> f, body |-> b] :
      f \in BOOLEAN, b \in {NotJson, JsonNull, JsonPrim} \cup ModelObjects }

ModelOutcomes == ModelErrors \cup {[kind |-> "nocontent"]} \cup ModelTexts

\* content.replace(/^```json\s*|\s*```$/gm, "").trim()
StripFences(text) == [text EXCEPT !.fenced = FALSE]

\* JSON.parse: the value, or a SyntaxError.
JSONparse(text) ==
  IF text.fenced \/ text.body = NotJson
  THEN Thrown("Unexpected token in JSON")
  ELSE text.body

\* ------------------------------------------------------------ parseModelOutput
parseModelOutputA(content) ==
  LET parsed == JSONparse(StripFences(content)) IN
  IF IsThrown(parsed)
  THEN createErrorStep("JSON parsing error: " \o OrElse(parsed.message, "Invalid response format"))
  ELSE parsed

\* Revision B reads parsed.function inside the try: null makes it a TypeError,
\* which the catch turns into a parsing-error step.
parseModelOutputB(content) ==
  LET parsed == JSONparse(StripFences(content)) IN
  IF IsThrown(parsed)
  THEN createErrorStep("JSON parsing error: " \o OrElse(parsed.message, "Invalid response format"))
  ELSE IF parsed = JsonNull
  THEN createErrorStep("JSON parsing error: Cannot read properties of null")
  ELSE IF Truthy(Get(parsed, "function")) /\ Truthy(Get(parsed, "input"))
          /\ Get(parsed, "step") # "action"
  THEN createErrorStep("Invalid step name: Tool/function calls must use 'action' step")
  ELSE parsed

\* ------------------------------------------------------------- generateContent
StatusUrl == "https://developer.mozilla.org/en-US/docs/Web/HTTP/Reference/Status/"

\* The catch block of revision A.
ApiErrorA(message, digits) ==
  createErrorStep("API error: " \o
    (IF Truthy(message)
     THEN message \o ", For more info visit " \o StatusUrl \o OrElse(digits, "500")
     ELSE "Unknown API error"))

\* The catch block of revision B.
ApiErrorB(message) ==
  createErrorStep("API error: " \o OrElse(message, "Unknown API error"))

\* Revision A throws inside its own try when apiKey is empty, before any
\* request; outcome is read only when a request was issued.
generateContentA(key, outcome) ==
  IF ~key THEN ApiErrorA("API key is required", Absent)
  ELSE IF outcome.kind = "error" THEN ApiErrorA(outcome.message, outcome.digits)
  ELSE IF outcome.kind = "nocontent"
  THEN createErrorStep("No response content received from API")
  ELSE parseModelOutputA(outcome)

generateContentB(outcome) ==
  IF outcome.kind = "error" THEN ApiErrorB(outcome.message)
  ELSE IF outcome.kind = "nocontent"
  THEN createErrorStep("No response content received from API")
  ELSE parseModelOutputB(outcome)

\* ----------------------------------------------------------------- executeTool
\* What a registered tool's function can do.
ToolValue == [ty |-> "raw", val |-> "ok"]
ToolOutcomes == {ToolValue, Thrown("boom"), ThrownNullish}

\* tools[functionName] is truthy: an own entry, or an inherited property.
Found(name) == name \in {RegisteredTool, InheritedName}

\* tool.function(input) calls a tool: only an own entry has a function.
Invokes(hasTools, name) == hasTools /\ name = RegisteredTool

\* Revision A: no try; a throw leaves executeTool as a rejection.
executeToolA(hasTools, functionName, input, outcome) ==
  IF ~hasTools THEN createErrorStep("No tools provided")
  ELSE IF ~Found(functionName) THEN createErrorStep("Tool not found: " \o functionName)
  ELSE IF functionName = InheritedName THEN Thrown("tool.function is not a function")
  ELSE outcome

\* Revision B: the try block, then the catch.  The catch reads error.message,
\* which itself throws when the thrown value is nullish.
executeToolTryB(hasTools, functionName, input, outcome) ==
  IF ~hasTools THEN Thrown("Cannot read properties of undefined")
  ELSE IF ~Found(functionName) THEN createErrorStep("Tool not found: " \o functionName)
  ELSE IF functionName = InheritedName THEN Thrown("tool.function is not a function")
  ELSE IF IsThrown(outcome) THEN outcome
  ELSE StepOutput("action", "Successfully executed tool " \o functionName,
                  functionName, input, "true")

executeToolB(hasTools, functionName, input, outcome) ==
  LET r == executeToolTryB(hasTools, functionName, input, outcome) IN
  IF ~IsThrown(r) THEN r
  ELSE IF r.nullish THEN Thrown("Cannot read properties of null")
  ELSE createErrorStep("Tool execution error: " \o functionName \o " failed - "
                       \o OrElse(r.message, "Unknown tool error"))

\* ------------------------------------------------------------------- messages
\* systemMessage(config): the prompt text is built outside the loop.
SystemMsg == [role |-> "system", content |-> [ty |-> "prompt"]]
UserQuery == [role |-> "user", content |-> [ty |-> "text", text |-> "hi"]]
AssistantMsg(step) == [role |-> "assistant", content |-> Stringify(step)]
\* `{step: "observe", content: ${JSON.stringify(toolResult)}}`
ObserveMsg(toolResult) ==
  [role |-> "user", content |-> [ty |-> "observe", of |-> Stringify(toolResult)]]
ProceedMsgA == [role |-> "user", content |-> [ty |-> "text", text |-> "Proceed with the next step"]]
ProceedMsgB == [role |-> "user", content |-> [ty |-> "text", text |-> "proceed with next step"]]

\* ----------------------------------------------------------- the no-key stub
\* Revision B returns a stub session when apiKey is empty: no transcript and
\* no step history exist.
IsStub == rev = "B" /\ ~apiKey

StubStep == StepOutput("error", "API key is required", Null, Null, "false")

\* ------------------------------------------------------------------ run state
\* One run() call.  pc: "request" (loop head), "awaitModel", "awaitObserver",
\* "awaitTool", "resolved", "rejected".  ret is the array run() returned (an
\* index into arrays; 0: none).  nreq counts the model requests the run
\* issued, calls lists the tool invocations, obs the observer's calls.
\* epoch is the number of reset() calls made before this run() call.
\* parsed and toolResult are the loop's locals parsedData and toolResult;
\* raw and toolOutcome are what the model client and the tool last did.
NewRun(cb) ==
  [pc |-> "request", cb |-> cb, raw |-> "none", parsed |-> NoVal,
   toolOutcome |-> NoVal, toolResult |-> NoVal, result |-> Absent, ret |-> 0,
   nreq |-> 0, calls |-> << >>, obs |-> << >>, epoch |-> resets]

Settled(run) == run.pc \in {"resolved", "rejected"}

\* The part of the state a stretch of run() works on.
St(run) == [messages |-> messages, arrays |-> arrays, run |-> run]

\* steps.push(step): steps is the closure variable, read at the push.
PushStep(S, step) == [S EXCEPT !.arrays[stepsRef] = Append(@, step)]

\* messages.push(message)
PushMsg(S, message) == [S EXCEPT !.messages = Append(@, message)]

\* return {result, steps}: the array itself is handed out, not a copy.
Return(S, result) ==
  [S EXCEPT !.run.pc = "resolved", !.run.result = result, !.run.ret = stepsRef]

\* An exception leaves run(): the promise rejects.
Reject(S) == [S EXCEPT !.run.pc = "rejected"]

\* await onStep(step): the observer is called now and the run waits for it.
Observe(S, step) ==
  [S EXCEPT !.run.obs = Append(@, step), !.run.pc = "awaitObserver"]

\* executeTool(function, input) is called: the tool's function, when there is
\* one, is called now, and the run waits for the outcome.
Dispatch(S, step) ==
  [S EXCEPT !.run.pc = "awaitTool",
            !.run.calls = IF Invokes(tools, step.function)
                          THEN Append(@, [function |-> step.function, input |-> step.input])
                          ELSE @]

\* ------------------------------------------------------------- revision A: run
\* Mutant: the error step is not pushed onto the transcript.
handleError_NoTranscript(S, errorStep) ==
  LET outputStep == createOutputStep(OrElse(errorStep.content, "An error occurred"))
      S2 == PushStep(S, outputStep)
  IN Return(S2, OrElse(outputStep.content, "An error occurred"))

handleError(S, errorStep) ==
  LET S1 == PushMsg(S, AssistantMsg(errorStep))
      outputStep == createOutputStep(OrElse(errorStep.content, "An error occurred"))
      S2 == PushStep(S1, outputStep)
  IN Return(S2, OrElse(outputStep.content, "An error occurred"))

\* Mutant: the guard asks for both fields to be missing (&& for ||).
ActionCaseA_BothMissing(S) ==
  LET parsedData == S.run.parsed IN
  IF ~Truthy(Get(parsedData, "function")) /\ ~Truthy(Get(parsedData, "input"))
  THEN LET errorStep ==
             createErrorStep("Invalid action step: Missing function or input fields")
       IN handleError(PushStep(S, errorStep), errorStep)
  ELSE Dispatch(S, parsedData)

\* case "action", up to the call of executeTool.
ActionCaseA(S) ==
  LET parsedData == S.run.parsed IN
  IF ~Truthy(Get(parsedData, "function")) \/ ~Truthy(Get(parsedData, "input"))
  THEN LET errorStep ==
             createErrorStep("Invalid action step: Missing function or input fields")
       IN handleError(PushStep(S, errorStep), errorStep)
  ELSE Dispatch(S, parsedData)

\* Mutant: the case lacks its return and falls through to the default.
OutputCaseA_FallsThrough(S) == [PushMsg(S, ProceedMsgA) EXCEPT !.run.pc = "request"]

\* case "output"
OutputCaseA(S) ==
  Return(S, OrElse(Get(S.run.parsed, "content"), "No response provided"))

\* Mutant: the loop goes round without the continuation prompt.
DefaultCaseA_NoPrompt(S) == [S EXCEPT !.run.pc = "request"]

\* default
DefaultCaseA(S) == [PushMsg(S, ProceedMsgA) EXCEPT !.run.pc = "request"]

\* Lines 131-168: from the error test to the end of the switch.  Reading
\* parsedData.step throws when parsedData is null.
BranchA(S) ==
  LET parsedData == S.run.parsed IN
  IF parsedData = JsonNull THEN Reject(S)
  ELSE IF Get(parsedData, "step") = "error" THEN handleError(S, parsedData)
  ELSE
    LET S1 == PushMsg(S, AssistantMsg(parsedData)) IN
    CASE Get(parsedData, "step") = "action" -> ActionCaseA(S1)
      [] Get(parsedData, "step") = "output" -> OutputCaseA(S1)
      [] OTHER -> DefaultCaseA(S1)

\* Mutant: the tool's result is dropped, no observe message is pushed.
AfterToolA_NoObserve(S, toolResult) ==
  IF IsThrown(toolResult) THEN Reject(S) ELSE [S EXCEPT !.run.pc = "request"]

\* Lines 147-157: after await executeTool.
AfterToolA(S, toolResult) ==
  IF IsThrown(toolResult) THEN Reject(S)
  ELSE [PushMsg(S, ObserveMsg(toolResult)) EXCEPT !.run.pc = "request"]

\* ------------------------------------------------------------- revision B: run
\* Mutant: an error Step sends the loop round again.
ErrorCaseB_Retries(S) == [S EXCEPT !.run.pc = "request"]

\* The error branch, lines 353-366.
ErrorCaseB(S) ==
  LET parsedData == S.run.parsed
      S1 == PushMsg(S, AssistantMsg(parsedData))
      errorStep == createOutputStep(OrElse(parsedData.content, "An error occurred"))
  IN Return(PushStep(S1, errorStep), errorStep.content)

\* case "action", up to the call of executeTool, and its else branch.
ActionCaseB(S) ==
  LET parsedData == S.run.parsed IN
  IF Truthy(Get(parsedData, "function")) /\ Truthy(Get(parsedData, "input"))
  THEN Dispatch(S, parsedData)
  ELSE LET errorStep ==
             createErrorStep("Invalid action step: Missing function or input fields")
           S2 == PushMsg(PushStep(S, errorStep), AssistantMsg(errorStep))
           outputStep == createOutputStep(errorStep.content)
       IN Return(PushStep(S2, outputStep), outputStep.content)

\* Mutant: the run returns on the demand Step without pushing an output Step.
DemandCaseB_NoOutputStep(S) ==
  Return(S, OrElse(Get(S.run.parsed, "content"), "Tool required but not available"))

\* case "demand"
DemandCaseB(S) ==
  LET demandStep == createOutputStep(
        OrElse(Get(S.run.parsed, "content"), "Tool required but not available"))
  IN Return(PushStep(S, demandStep), demandStep.content)

\* case "output"
OutputCaseB(S) ==
  Return(S, OrElse(Get(S.run.parsed, "content"), "No response provided"))

\* Mutant: the loop goes on without the continuation prompt.
DefaultCaseB_NoPrompt(S) == [S EXCEPT !.run.pc = "request"]

\* default
DefaultCaseB(S) == [PushMsg(S, ProceedMsgB) EXCEPT !.run.pc = "request"]

\* Lines 353-436: from the error test to the end of the switch.
BranchB(S) ==
  LET parsedData == S.run.parsed IN
  IF Get(parsedData, "step") = "error" THEN ErrorCaseB(S)
  ELSE
    LET S1 == PushMsg(S, AssistantMsg(parsedData)) IN
    CASE Get(parsedData, "step") = "action" -> ActionCaseB(S1)
      [] Get(parsedData, "step") = "demand" -> DemandCaseB(S1)
      [] Get(parsedData, "step") = "output" -> OutputCaseB(S1)
      [] OTHER -> DefaultCaseB(S1)

\* Lines 373-397: after await executeTool.
AfterToolB(S, toolResult) ==
  IF IsThrown(toolResult) THEN Reject(S)
  ELSE
    LET S1 == PushStep(S, toolResult) IN
    IF toolResult.step = "error"
    THEN LET S2 == PushMsg(S1, AssistantMsg(toolResult))
             errorStep == createOutputStep(OrElse(toolResult.content, "Tool execution failed"))
         IN Return(PushStep(S2, errorStep), errorStep.content)
    ELSE [PushMsg(S1, ObserveMsg(toolResult)) EXCEPT !.run.pc = "request"]

\* ------------------------------------------------------- both revisions' steps
generateContent(outcome) ==
  IF rev = "A" THEN generateContentA(apiKey, outcome) ELSE generateContentB(outcome)

executeTool(functionName, input, outcome) ==
  IF rev = "A" THEN executeToolA(tools, functionName, input, outcome)
  ELSE executeToolB(tools, functionName, input, outcome)

Branch(S) == IF rev = "A" THEN BranchA(S) ELSE BranchB(S)

AfterTool(S, toolResult) ==
  IF rev = "A" THEN AfterToolA(S, toolResult) ELSE AfterToolB(S, toolResult)

\* Mutant: the loop acts on the Step first and tells the observer after.
Produced_ObserverLast(S, parsedData) ==
  LET S1 == PushStep([S EXCEPT !.run.parsed = parsedData,
                               !.run.toolOutcome = NoVal,
                               !.run.toolResult = NoVal], parsedData) IN
  IF S.run.cb THEN [Branch(S1) EXCEPT !.run.obs = Append(@, parsedData)] ELSE Branch(S1)

\* Lines 124-129 / 346-351: steps.push(parsedData), then the observer when
\* one was given, else straight on to the branch.
Produced(S, parsedData) ==
  LET S1 == PushStep([S EXCEPT !.run.parsed = parsedData,
                               !.run.toolOutcome = NoVal,
                               !.run.toolResult = NoVal], parsedData) IN
  IF S.run.cb THEN Observe(S1, parsedData) ELSE Branch(S1)

\* What the model client did, in a word.
RawKind(outcome) ==
  IF outcome = NoVal THEN "none"
  ELSE IF outcome.kind = "error" THEN "failed"
  ELSE IF outcome.kind = "nocontent" THEN "empty"
  ELSE IF outcome.body = NotJson THEN "notjson"
  ELSE "json"

\* generateContent reaches the transport: revision A throws before it when
\* apiKey is empty.
IssuesRequest == ~(rev = "A" /\ ~apiKey)

TotalRequests ==
  LET Sum[i \in 0..Len(runs)] == IF i = 0 THEN 0 ELSE Sum[i - 1] + runs[i].nreq
  IN Sum[Len(runs)]

\* The stretch's result becomes the state.
Commit(r, S) ==
  /\ messages' = S.messages
  /\ arrays' = S.arrays
  /\ runs' = [runs EXCEPT ![r] = S.run]

\* ---------------------------------------------------------------------- Init
\* createLynk(config)
Init ==
  /\ rev \in Revisions
  /\ apiKey \in BOOLEAN
  /\ tools \in BOOLEAN
  /\ history \in Histories
  /\ messages = IF IsStub THEN << >> ELSE <<SystemMsg>> \o history
  /\ arrays = IF IsStub THEN << >> ELSE << << >> >>
  /\ stepsRef = IF IsStub THEN 0 ELSE 1
  /\ runs = << >>
  /\ resets = 0

\* -------------------------------------------------------------------- actions
\* Callers await a run before the next call on the session.
Idle == \A r \in DOMAIN runs : Settled(runs[r])

\* run(query, onStep) on the stub: resolves with a fresh literal.
StubRun(cb) ==
  /\ IsStub /\ Idle /\ Len(runs) < MaxRuns
  /\ arrays' = Append(arrays, <<StubStep>>)
  /\ runs' = Append(runs, [NewRun(cb) EXCEPT !.pc = "resolved",
                                            !.result = "API key is required",
                                            !.ret = Len(arrays) + 1])
  /\ UNCHANGED <<config, messages, stepsRef, resets>>

\* Mutant: run() starts the transcript over.
Run_FreshTranscript(cb) ==
  /\ ~IsStub /\ Idle /\ Len(runs) < MaxRuns
  /\ arrays' = Append(arrays, << >>)
  /\ stepsRef' = Len(arrays) + 1
  /\ messages' = <<SystemMsg, UserQuery>>
  /\ runs' = Append(runs, NewRun(cb))
  /\ UNCHANGED <<config, resets>>

\* Mutant: run() keeps the steps array it has (no steps = []).
Run_KeepsSteps(cb) ==
  /\ ~IsStub /\ Idle /\ Len(runs) < MaxRuns
  /\ messages' = Append(messages, UserQuery)
  /\ runs' = Append(runs, NewRun(cb))
  /\ UNCHANGED <<config, arrays, stepsRef, resets>>

\* run(query, onStep): steps = []; messages.push(query); enter the loop.
Run(cb) ==
  /\ ~IsStub /\ Idle /\ Len(runs) < MaxRuns
  /\ arrays' = Append(arrays, << >>)
  /\ stepsRef' = Len(arrays) + 1
  /\ messages' = Append(messages, UserQuery)
  /\ runs' = Append(runs, NewRun(cb))
  /\ UNCHANGED <<config, resets>>

\* The loop head: generateContent() is called.
IssueRequest(r) ==
  /\ runs[r].pc = "request"
  /\ IssuesRequest => TotalRequests < MaxRequests
  /\ runs' = [runs EXCEPT ![r].pc = "awaitModel",
                          ![r].nreq = IF IssuesRequest THEN @ + 1 ELSE @]
  /\ UNCHANGED <<config, messages, arrays, stepsRef, resets>>

\* await generateContent() completes.
ModelSettles(r) ==
  /\ runs[r].pc = "awaitModel"
  /\ \E outcome \in (IF IssuesRequest THEN ModelOutcomes ELSE {NoVal}) :
       Commit(r, Produced(St([runs[r] EXCEPT !.raw = RawKind(outcome)]),
                          generateContent(outcome)))
  /\ UNCHANGED <<config, stepsRef, resets>>

\* await onStep(parsedData) completes.
ObserverReturns(r) ==
  /\ runs[r].pc = "awaitObserver"
  /\ Commit(r, Branch(St(runs[r])))
  /\ UNCHANGED <<config, stepsRef, resets>>

\* await executeTool(...) completes.
ToolSettles(r) ==
  /\ runs[r].pc = "awaitTool"
  /\ LET step == runs[r].parsed IN
     \E outcome \in (IF Invokes(tools, step.function) THEN ToolOutcomes ELSE {NoVal}) :
       LET toolResult == executeTool(step.function, step.input, outcome) IN
       Commit(r, AfterTool(St([runs[r] EXCEPT !.toolOutcome = outcome,
                                              !.toolResult = toolResult]),
                           toolResult))
  /\ UNCHANGED <<config, stepsRef, resets>>

\* reset(): a no-op on the stub.
Reset ==
  /\ Idle /\ resets < MaxResets
  /\ resets' = resets + 1
  /\ IF IsStub
     THEN UNCHANGED <<messages, arrays, stepsRef>>
     ELSE /\ messages' = <<SystemMsg>>
          /\ arrays' = Append(arrays, << >>)
          /\ stepsRef' = Len(arrays) + 1
  /\ UNCHANGED <<config, runs>>

\* run(query, onStep) called whether or not an earlier run has settled: the
\* same function body, nothing in it looks at a run in flight.
CallRun(cb) ==
  /\ ~IsStub /\ Len(runs) < MaxRuns
  /\ arrays' = Append(arrays, << >>)
  /\ stepsRef' = Len(arrays) + 1
  /\ messages' = Append(messages, UserQuery)
  /\ runs' = Append(runs, NewRun(cb))
  /\ UNCHANGED <<config, resets>>

\* reset() called whether or not a run is suspended.
CallReset ==
  /\ resets < MaxResets
  /\ resets' = resets + 1
  /\ IF IsStub
     THEN UNCHANGED <<messages, arrays, stepsRef>>
     ELSE /\ messages' = <<SystemMsg>>
          /\ arrays' = Append(arrays, << >>)
          /\ stepsRef' = Len(arrays) + 1
  /\ UNCHANGED <<config, runs>>

\* While a run stands at the loop head, only it moves.
Synchronous == \A r \in DOMAIN runs : runs[r].pc # "request"

\* A caller passes its observer to every run() it makes, or to none.
Observers == IF runs = << >> THEN BOOLEAN ELSE {runs[1].cb}

Next ==
  \/ \E cb \in Observers : Synchronous /\ StubRun(cb)
  \/ \E cb \in Observers : Synchronous /\ Run(cb)
  \/ \E r \in DOMAIN runs : IssueRequest(r)
  \/ \E r \in DOMAIN runs : Synchronous /\ ModelSettles(r)
  \/ \E r \in DOMAIN runs : Synchronous /\ ObserverReturns(r)
  \/ \E r \in DOMAIN runs : Synchronous /\ ToolSettles(r)
  \/ Synchronous /\ Reset

Spec == Init /\ [][Next]_vars

\* The session used without awaiting: run() and reset() may be called while
\* earlier runs are suspended at an await.
NextOverlap ==
  \/ \E cb \in Observers : Synchronous /\ StubRun(cb)
  \/ \E cb \in Observers : Synchronous /\ CallRun(cb)
  \/ \E r \in DOMAIN runs : IssueRequest(r)
  \/ \E r \in DOMAIN runs : Synchronous /\ ModelSettles(r)
  \/ \E r \in DOMAIN runs : Synchronous /\ ObserverReturns(r)
  \/ \E r \in DOMAIN runs : Synchronous /\ ToolSettles(r)
  \/ Synchronous /\ CallReset

SpecOverlap == Init /\ [][NextOverlap]_vars

\* ------------------------------------------------------------ the session API
\* getSteps(): [...steps]
getSteps == IF IsStub THEN <<StubStep>> ELSE arrays[stepsRef]

\* Mutant: the slice is forgotten.
messageLogs_NoSlice == IF IsStub THEN << >> ELSE messages

\* messageLogs(): [...messages.slice(1)]
messageLogs == IF IsStub THEN << >> ELSE Tail(messages)

\* The steps a run returned, as the caller sees them now.
Returned(r) == arrays[runs[r].ret]

\* ------------------------------------------------------------------- claims
IsStep(v, kind) == v.ty = "obj" /\ v.step = kind

\* C1: run() never rejects, in either revision: for every model outcome and
\* every tool outcome, a run that ends has resolved with {result, steps}.
C1_RunNeverRejects ==
  \A r \in DOMAIN runs : runs[r].pc # "rejected"

\* C2: with an empty apiKey, in either revision, a run resolves with result
\* "API key is required" and steps holding exactly one Step, of kind error;
\* no model request is issued and messageLogs() stays empty.
C2_MissingCredential ==
  \A r \in DOMAIN runs :
    (~apiKey /\ Settled(runs[r])) =>
      /\ runs[r].pc = "resolved"
      /\ runs[r].result = "API key is required"
      /\ Len(Returned(r)) = 1
      /\ IsStep(Returned(r)[1], "error")
      /\ runs[r].nreq = 0
      /\ messageLogs = << >>

IsOutput(v) == IsStep(v, "output")

\* C3: an output Step is terminal.  Once parsedData is a Step of kind
\* output the run only waits for the observer and resolves: it issues no
\* further model request and invokes no tool, and its result is the Step's
\* content, or "No response provided" when the content is empty.  An output
\* Step on the first response ends the run after exactly one model request.
C3_OutputTerminal ==
  [][\A r \in DOMAIN runs' :
       IsOutput(runs'[r].parsed) =>
         /\ runs'[r].pc \in {"awaitObserver", "resolved"}
         /\ runs'[r].pc = "resolved" =>
              runs'[r].result =
                IF runs'[r].parsed.content = "" THEN "No response provided"
                ELSE runs'[r].parsed.content
         /\ r \in DOMAIN runs =>
              /\ runs'[r].nreq = runs[r].nreq
              /\ runs'[r].calls = runs[r].calls
         /\ (runs'[r].pc = "resolved" /\ arrays'[runs'[r].ret] = <<runs'[r].parsed>>) =>
              runs'[r].nreq = 1]_vars

\* Two runs resolved on an output Step: one with content, one without.
C3_Witness ==
  \E r, q \in DOMAIN runs :
    /\ runs[r].pc = "resolved" /\ IsOutput(runs[r].parsed)
    /\ runs[r].parsed.content = "done" /\ runs[r].result = "done" /\ runs[r].nreq = 1
    /\ runs[q].pc = "resolved" /\ IsOutput(runs[q].parsed)
    /\ runs[q].parsed.content = "" /\ runs[q].result = "No response provided"

\* A well-formed action Step naming a tool of the registry.
CallsRegistered(v) ==
  /\ tools /\ IsStep(v, "action")
  /\ v.function = RegisteredTool /\ Truthy(v.input)

\* C4: a well-formed action Step naming a registered tool that succeeds: the
\* tool is invoked exactly once, with the Step's input (at the dispatch, and
\* not again); when it returns, exactly one observe message is appended to
\* the transcript and the run goes back to the loop head, whose next step
\* issues a further model request.
C4_ActionSuccess ==
  [][\A r \in DOMAIN runs :
       /\ (runs[r].pc # "awaitTool" /\ runs'[r].pc = "awaitTool"
           /\ CallsRegistered(runs'[r].parsed)) =>
            runs'[r].calls =
              Append(runs[r].calls, [function |-> runs'[r].parsed.function,
                                     input |-> runs'[r].parsed.input])
       /\ (runs[r].pc = "awaitTool" /\ runs'[r] # runs[r]
           /\ CallsRegistered(runs[r].parsed) /\ runs'[r].toolOutcome = ToolValue) =>
            /\ messages' = Append(messages, ObserveMsg(runs'[r].toolResult))
            /\ runs'[r].pc = "request"
            /\ runs'[r].calls = runs[r].calls
            /\ runs'[r].nreq = runs[r].nreq
       /\ (runs[r].pc = "request" /\ runs'[r] # runs[r]
           /\ runs[r].toolOutcome = ToolValue) =>
            /\ runs'[r].pc = "awaitModel"
            /\ runs'[r].nreq = runs[r].nreq + 1
            /\ runs'[r].calls = runs[r].calls
            /\ messages' = messages]_vars

\* A run that called the tool once, got its value, appended the observe
\* message and issued its second model request.
C4_Witness ==
  \E r \in DOMAIN runs :
    /\ runs[r].pc = "awaitModel" /\ runs[r].nreq = 2
    /\ CallsRegistered(runs[r].parsed) /\ runs[r].toolOutcome = ToolValue
    /\ runs[r].calls = <<[function |-> RegisteredTool, input |-> "in1"]>>
    /\ messages[Len(messages)] = ObserveMsg(runs[r].toolResult)

\* C5: a failure raised by a tool is caught by the dispatcher and surfaced as
\* an error Step naming the tool; the run then ends with that error Step's
\* content as result.
C5_ToolFailureCaught ==
  \A r \in DOMAIN runs :
    IsThrown(runs[r].toolOutcome) =>
      /\ IsStep(runs[r].toolResult, "error")
      /\ runs[r].pc = "resolved"
      /\ runs[r].result = runs[r].toolResult.content

\* An action Step with both fields whose function is no entry of the
\* registry, or there is no registry.
CallsUnregistered(v) ==
  /\ IsStep(v, "action") /\ Truthy(v.function) /\ Truthy(v.input)
  /\ ~(tools /\ v.function = RegisteredTool)

\* C6: an action Step naming a capability that is not in the registry (or
\* with no registry configured) produces a ToolNotFound error Step and ends
\* the run: no tool is invoked, no observe message is appended, no further
\* model request is issued, and result is the ToolNotFound diagnostic.
C6_ToolNotFound ==
  \A r \in DOMAIN runs :
    (CallsUnregistered(runs[r].parsed) /\ runs[r].toolResult # NoVal) =>
      /\ runs[r].toolResult = createErrorStep("Tool not found: " \o runs[r].parsed.function)
      /\ runs[r].pc = "resolved"
      /\ runs[r].result = "Tool not found: " \o runs[r].parsed.function
      /\ \A i \in DOMAIN runs[r].calls :
           runs[r].calls[i].function # runs[r].parsed.function
      /\ \A i \in DOMAIN messages : messages[i] # ObserveMsg(runs[r].toolResult)

MissingField(v) ==
  IsStep(v, "action") /\ (~Truthy(v.function) \/ ~Truthy(v.input))

InvalidAction == "Invalid action step: Missing function or input fields"

\* C7: an action Step missing function or missing input ends the run at
\* once as a protocol violation: no tool is invoked, no further model
\* request is issued, and result is the diagnostic.
C7_InvalidAction ==
  [][\A r \in DOMAIN runs' :
       MissingField(runs'[r].parsed) =>
         /\ runs'[r].pc \in {"awaitObserver", "resolved"}
         /\ runs'[r].pc = "resolved" => runs'[r].result = InvalidAction
         /\ r \in DOMAIN runs =>
              /\ runs'[r].nreq = runs[r].nreq
              /\ runs'[r].calls = runs[r].calls]_vars

\* Two runs ended on an invalid action: one lacks input, one lacks function.
C7_Witness ==
  \E r, q \in DOMAIN runs :
    /\ runs[r].pc = "resolved" /\ runs[r].result = InvalidAction
    /\ IsStep(runs[r].parsed, "action")
    /\ runs[r].parsed.function = RegisteredTool /\ runs[r].parsed.input = Null
    /\ runs[q].pc = "resolved" /\ runs[q].result = InvalidAction
    /\ IsStep(runs[q].parsed, "action")
    /\ runs[q].parsed.function = Null /\ runs[q].parsed.input = "in1"

ParseError == "JSON parsing error: Unexpected token in JSON"

\* C8: non-JSON model output ends the run at once with a parse-error
\* result: no tool is invoked, no further model request is issued, the
\* synthesized error Step is recorded in steps, and when the run resolves
\* it is appended to the transcript as an assistant message.
C8_MalformedOutput ==
  [][\A r \in DOMAIN runs' :
       runs'[r].raw = "notjson" =>
         /\ runs'[r].parsed = createErrorStep(ParseError)
         /\ runs'[r].pc \in {"awaitObserver", "resolved"}
         /\ runs'[r].pc = "awaitObserver" =>
              LET a == arrays'[stepsRef'] IN a[Len(a)] = runs'[r].parsed
         /\ runs'[r].pc = "resolved" =>
              /\ runs'[r].result = ParseError
              /\ LET a == arrays'[runs'[r].ret] IN
                   /\ Len(a) >= 2
                   /\ a[Len(a) - 1] = runs'[r].parsed
                   /\ a[Len(a)] = createOutputStep(ParseError)
         /\ r \in DOMAIN runs =>
              /\ runs'[r].nreq = runs[r].nreq
              /\ runs'[r].calls = runs[r].calls
              /\ (runs[r].pc # "resolved" /\ runs'[r].pc = "resolved") =>
                   messages' = Append(messages, AssistantMsg(runs'[r].parsed))]_vars

\* A run resolved on non-JSON model output.
C8_Witness ==
  \E r \in DOMAIN runs :
    /\ runs[r].raw = "notjson" /\ runs[r].pc = "resolved"
    /\ runs[r].result = ParseError /\ runs[r].nreq = 1
    /\ messages[Len(messages)] = AssistantMsg(createErrorStep(ParseError))

\* C9: after any completed run, on any session (one created with an empty
\* apiKey included), reset() makes getSteps() return an empty sequence and
\* leaves the transcript holding the system message alone (messageLogs()
\* is empty).
C9_ResetClears ==
  [][(resets' = resets + 1 /\ runs # << >>) =>
       /\ getSteps' = << >>
       /\ messageLogs' = << >>
       /\ ~IsStub => messages' = <<SystemMsg>>]_vars

C11_DemandTerminal ==
  [][\A r \in DOMAIN runs' :
       IsStep(runs'[r].parsed, "demand") =>
         /\ runs'[r].pc \in {"awaitObserver", "resolved"}
         /\ runs'[r].pc = "resolved" => runs'[r].result = runs'[r].parsed.content
         /\ r \in DOMAIN runs =>
              /\ runs'[r].nreq = runs[r].nreq
              /\ runs'[r].calls = runs[r].calls]_vars

\* C12: the steps run() returns hold the tool outcomes, in both revisions.
\* When a registered tool has returned, the tool-outcome Step stands in the
\* Step History right after its action Step; a run scripted as action(echo)
\* then output("done") resolves with result "done" and with
\* steps = [action Step, tool-outcome Step, output Step].
C12_StepsHoldToolOutcomes ==
  \A r \in DOMAIN runs :
    /\ (runs[r].pc = "request" /\ runs[r].toolOutcome = ToolValue) =>
         LET a == arrays[stepsRef] IN
           /\ Len(a) >= 2
           /\ a[Len(a) - 1] = runs[r].parsed
           /\ a[Len(a)] = runs[r].toolResult
    /\ (runs[r].pc = "resolved" /\ runs[r].nreq = 2 /\ Len(runs[r].calls) = 1
        /\ runs[r].parsed = createOutputStep("done")) =>
         /\ runs[r].result = "done"
         /\ Len(Returned(r)) = 3
         /\ CallsRegistered(Returned(r)[1])
         /\ Returned(r)[3] = runs[r].parsed

\* C13: when run() was given an observer, the observer is called exactly once
\* for every Step of the steps the run returns, in their order: the Steps the
\* observer saw are the returned steps, tool-outcome Steps and the error and
\* output Steps the loop makes itself included.
C13_ObserverSeesEveryStep ==
  \A r \in DOMAIN runs :
    (runs[r].cb /\ runs[r].pc = "resolved") => runs[r].obs = Returned(r)

\* The transcript holds the system message and nothing else.
SeedOnly == messageLogs = << >> /\ (~IsStub => messages = <<SystemMsg>>)

\* C14: the transcript is seeded with exactly one system message at
\* construction and on reset(), for every configuration, one with a
\* non-empty history included: a session no run was made on, whether it was
\* just constructed or constructed and reset, holds the system message alone
\* and messageLogs() is empty, so that the transcript after reset() is the
\* transcript at construction.
C14_SeededWithSystemOnly ==
  runs = << >> => SeedOnly

\* A model response with both function and input whose step is not "action".
CarriesCall(v) ==
  /\ v.ty = "obj" /\ v.step # "action"
  /\ Truthy(v.function) /\ Truthy(v.input)

\* C15: the parser's protocol check, in both revisions of parseModelOutput.
\* A model response with both function and input whose step is not "action"
\* never becomes parsedData: the parser turns it into an error Step, so the
\* run ends at once, the named tool is not invoked and no further model
\* request is issued.
C15_ParserProtocolCheck ==
  \A r \in DOMAIN runs : ~CarriesCall(runs[r].parsed)

\* JSON.parse gave a value that exposes no step field.
NoStepField(v) == v = JsonPrim \/ v = JsonNull \/ (v.ty = "obj" /\ v.step = Absent)

\* C16: the parser's shape check.  Model text that is valid JSON but exposes
\* no step field (an empty object, a value that is no object) never becomes
\* parsedData: it is rejected as an error Step, which ends the run; the loop
\* never goes on with it as with a non-terminal step.
C16_ParserShapeCheck ==
  \A r \in DOMAIN runs : ~NoStepField(runs[r].parsed)

\* A field of a Step holds a value.
Present(v) == v \notin {Absent, Null}

\* kind = action <=> both function and input are present; any other kind
\* carries neither.
WellFormedStep(s) ==
  /\ (s.step = "action") <=> (Present(s.function) /\ Present(s.input))
  /\ (s.step # "action") => (~Present(s.function) /\ ~Present(s.input))

\* C17: the Step invariant.  In every reachable state every Step of the Step
\* History, and of every steps sequence a run returned, is an action Step
\* exactly when it carries both function and input, and carries neither when
\* it is of another kind.
C17_StepInvariant ==
  \A a \in DOMAIN arrays : \A i \in DOMAIN arrays[a] :
    arrays[a][i].ty = "obj" => WellFormedStep(arrays[a][i])

\* A Step with a kind that is none of action, demand, output, error.
NonTerminal(v) ==
  v.ty = "obj" /\ v.step \notin {Absent, "action", "demand", "output", "error"}

\* The default branch's user message.
ContinuationPrompt == IF rev = "A" THEN ProceedMsgA ELSE ProceedMsgB

\* C18: a model Step whose kind is none of action, demand, output, error
\* (initiate, a custom name) is non-terminal.  While it is parsedData the run
\* is not settled and invokes no tool; when the loop acts on it, exactly the
\* assistant message holding the serialized Step and then one
\* continuation-prompt user message are appended to the transcript, and the
\* run stands at the loop head, where all it does is to issue a further
\* model request.
C18_NonTerminalContinues ==
  [][\A r \in DOMAIN runs :
       NonTerminal(runs'[r].parsed) =>
         /\ runs'[r].pc \in {"awaitObserver", "request", "awaitModel"}
         /\ runs'[r].calls = runs[r].calls
         /\ (runs[r].pc # "request" /\ runs'[r].pc = "request") =>
              /\ messages' = messages \o <<AssistantMsg(runs'[r].parsed), ContinuationPrompt>>
              /\ runs'[r].nreq = runs[r].nreq
         /\ (runs[r].pc # "awaitObserver" /\ runs'[r].pc = "awaitObserver") =>
              messages' = messages
         /\ (runs[r].pc = "request" /\ runs'[r] # runs[r]) =>
              /\ runs'[r].pc = "awaitModel"
              /\ runs'[r].nreq = runs[r].nreq + 1
              /\ messages' = messages]_vars

\* A run whose first Step was an initiate Step: the two messages are the
\* transcript's last, and the second model request is out.
C18_Witness ==
  \E r \in DOMAIN runs :
    /\ NonTerminal(runs[r].parsed) /\ runs[r].parsed.step = "initiate"
    /\ runs[r].pc = "awaitModel" /\ runs[r].nreq = 2 /\ runs[r].calls = << >>
    /\ Len(messages) >= 3
    /\ messages[Len(messages) - 2] = UserQuery
    /\ messages[Len(messages) - 1] = AssistantMsg(runs[r].parsed)
    /\ messages[Len(messages)] = ContinuationPrompt

\* The observer's last call was for parsedData.
ObservedLast(run) ==
  run.obs # << >> /\ run.obs[Len(run.obs)] = run.parsed

\* C19: observer ordering, for a run that was given an observer.  When the
\* model client's answer becomes parsedData the observer is called for it,
\* and nothing else happens until the call completes: a tool is invoked, and
\* the run is settled from a wait for the observer, only at the return of
\* the call for parsedData; a model request is issued only when every Step
\* produced so far was observed, one call for each request made.  The
\* calls are made in the order the Steps are produced.
C19_ObserverOrdering ==
  [][\A r \in DOMAIN runs :
       (runs[r].cb /\ runs'[r] # runs[r]) =>
         /\ runs[r].pc = "awaitModel" =>
              /\ runs'[r].pc = "awaitObserver"
              /\ runs'[r].obs = Append(runs[r].obs, runs'[r].parsed)
              /\ runs'[r].calls = runs[r].calls
              /\ runs'[r].nreq = runs[r].nreq
              /\ messages' = messages
         /\ runs[r].pc # "awaitModel" => runs'[r].obs = runs[r].obs
         /\ runs'[r].calls # runs[r].calls =>
              /\ runs[r].pc = "awaitObserver" /\ ObservedLast(runs[r])
              /\ runs'[r].parsed = runs[r].parsed
              /\ runs'[r].calls =
                   Append(runs[r].calls, [function |-> runs[r].parsed.function,
                                          input |-> runs[r].parsed.input])
         /\ Settled(runs'[r]) =>
              /\ runs[r].pc \in {"awaitObserver", "awaitTool"}
              /\ ObservedLast(runs[r])
              /\ runs'[r].parsed = runs[r].parsed
         /\ runs'[r].nreq # runs[r].nreq =>
              /\ runs[r].pc = "request"
              /\ Len(runs[r].obs) = runs[r].nreq
              /\ runs[r].nreq > 0 => ObservedLast(runs[r])]_vars

\* A run with an observer that dispatched a tool on its first Step, issued a
\* second request and resolved: the observer saw the two model Steps, the
\* action Step first.
C19_Witness ==
  \E r \in DOMAIN runs :
    /\ runs[r].cb /\ runs[r].pc = "resolved" /\ runs[r].nreq = 2
    /\ Len(runs[r].calls) = 1 /\ Len(runs[r].obs) = 2
    /\ CallsRegistered(runs[r].obs[1])
    /\ runs[r].obs[2] = runs[r].parsed

\* C20: run entry and per-run history, for runs made one after the other.
\* On run(query) the Step History is emptied and the query is appended to
\* the transcript as a user message, and they are so when the first model
\* request is issued.  The steps a run returns are a sequence of its own,
\* empty at its entry, that no other run returns, so that they hold no Step
\* of an earlier run; and the steps a settled run returned are not changed
\* by anything that comes later.
C20_PerRunHistory ==
  [][/\ \A r \in DOMAIN runs' \ DOMAIN runs :
          ~IsStub =>
            /\ getSteps' = << >>
            /\ messages' = Append(messages, UserQuery)
            /\ runs'[r].nreq = 0
            /\ \A q \in DOMAIN runs : runs[q].ret # stepsRef'
     /\ \A r \in DOMAIN runs :
          /\ (runs[r].nreq = 0 /\ runs'[r].nreq = 1) =>
               /\ getSteps = << >>
               /\ messages[Len(messages)] = UserQuery
          /\ runs[r].pc = "resolved" =>
               /\ runs'[r].ret = runs[r].ret
               /\ arrays'[runs'[r].ret] = Returned(r)
     /\ \A r, q \in DOMAIN runs' :
          (r # q /\ runs'[r].pc = "resolved" /\ runs'[q].pc = "resolved") =>
            runs'[r].ret # runs'[q].ret]_vars

\* Two runs made one after the other, each ended by the model: each returned
\* steps of its own, and the later run has pushed since the earlier returned.
C20_Witness ==
  \E r, q \in DOMAIN runs :
    /\ r < q /\ ~IsStub
    /\ runs[r].pc = "resolved" /\ runs[q].pc = "resolved"
    /\ runs[r].nreq = 1 /\ runs[q].nreq = 1
    /\ runs[r].ret # runs[q].ret
    /\ Returned(r) # << >> /\ Returned(q) # << >>
    /\ Returned(r) # Returned(q)

\* C21: after a successful tool dispatch the observe user message appended
\* to the transcript embeds the value the tool returned, in both revisions:
\* when the run is back at the loop head after a tool returned a value, the
\* transcript's last message is the observe message made of that value.
C21_ObserveEmbedsToolValue ==
  \A r \in DOMAIN runs :
    (runs[r].pc = "request" /\ runs[r].toolOutcome = ToolValue) =>
      messages[Len(messages)] = ObserveMsg(runs[r].toolOutcome)

\* The model request failed in transport, or came back without content.
RequestFailed(run) == run.raw \in {"failed", "empty"}

\* C22: no retry.  A model request that fails in transport or returns no
\* content yields an error Step and the run ends on it: the run only waits
\* for the observer and resolves, issues no further model request and
\* invokes no tool; the steps it returns hold the error Step and its result
\* is the Step's diagnostic.
C22_NoRetry ==
  [][\A r \in DOMAIN runs :
       RequestFailed(runs'[r]) =>
         /\ IsStep(runs'[r].parsed, "error")
         /\ runs'[r].pc \in {"awaitObserver", "resolved"}
         /\ runs'[r].nreq = runs[r].nreq
         /\ runs'[r].calls = runs[r].calls
         /\ runs'[r].pc = "resolved" =>
              /\ runs'[r].result = runs'[r].parsed.content
              /\ \E i \in DOMAIN arrays'[runs'[r].ret] :
                   arrays'[runs'[r].ret][i] = runs'[r].parsed]_vars

\* Two runs ended by a failed request: one by a transport error, one by a
\* response without content.
C22_Witness ==
  \E r, q \in DOMAIN runs :
    /\ runs[r].pc = "resolved" /\ runs[r].raw = "failed" /\ runs[r].nreq = 1
    /\ runs[r].result = runs[r].parsed.content
    /\ runs[q].pc = "resolved" /\ runs[q].raw = "empty" /\ runs[q].nreq = 1
    /\ runs[q].result = "No response content received from API"

\* Run r was suspended when reset() was called, and a new run was started
\* after the reset.
Abandoned(r) ==
  /\ ~Settled(runs[r]) /\ runs[r].epoch < resets
  /\ \E q \in DOMAIN runs : q > r /\ runs[q].epoch = resets

\* C23: exclusive ownership after reset().  When reset() was called while a
\* run was suspended and a new run was then started, whatever the abandoned
\* run does next appends no message to the new transcript and no Step to
\* the new run's Step History, so that the new run's returned steps hold
\* only Steps the new run produced.
C23_ExclusiveAfterReset ==
  [][\A r \in DOMAIN runs :
       (Abandoned(r) /\ runs'[r] # runs[r]) =>
         /\ messages' = messages
         /\ arrays'[stepsRef] = arrays[stepsRef]]_vars

\* parsedData is a Step of a terminal kind.
TerminalStep(v) == v.ty = "obj" /\ v.step \in {"output", "demand", "error"}

\* C24: termination.  Every model request, observer call and tool invocation
\* returning, a run whose model emits a terminal Step (output, demand or
\* error), or in which a failure occurs (a failed request, a tool that
\* throws), resolves: with such a Step or failure at hand the run has
\* resolved or only waits for the observer's return to do so.  There is no
\* iteration cap: on a non-terminal Step, or on an action whose tool
\* returned, the run is not settled and goes round the loop again.
C24_Termination ==
  \A r \in DOMAIN runs :
    /\ (TerminalStep(runs[r].parsed) \/ RequestFailed(runs[r])) =>
         runs[r].pc \in {"awaitObserver", "resolved"}
    /\ IsThrown(runs[r].toolOutcome) => runs[r].pc = "resolved"
    /\ (NonTerminal(runs[r].parsed) \/ runs[r].toolOutcome = ToolValue) =>
         runs[r].pc \in {"awaitObserver", "request", "awaitModel"}

IsPrefix(s, t) == Len(s) <= Len(t) /\ SubSeq(t, 1, Len(s)) = s

\* C25: the transcript is append-only between two reset() calls.  Every
\* step that is no reset() leaves the earlier transcript a prefix of the
\* later one, through any sequence of runs and whichever way a run ends, so
\* that a later run's model requests are made with all the messages of the
\* earlier runs, the error Steps among them.
C25_AppendOnlyTranscript ==
  [][resets' = resets => IsPrefix(messages, messages')]_vars

\* The second run's request is out, and the transcript still holds the first
\* run's query and the error Step the first run ended on.
C25_Witness ==
  /\ Len(runs) = 2 /\ resets = 0
  /\ runs[1].pc = "resolved" /\ IsStep(runs[1].parsed, "error")
  /\ runs[2].pc = "awaitModel" /\ runs[2].nreq = 1
  /\ messages = <<SystemMsg>> \o history
                  \o <<UserQuery, AssistantMsg(runs[1].parsed), UserQuery>>

\* C26: the final step's shape.  Whenever run() has resolved on a session
\* created with a non-empty apiKey, the last of the returned steps is a Step
\* of kind output and result is its content; but result is "No response
\* provided" when that Step is the model's own output Step and its content
\* is empty.
C26_FinalStepShape ==
  \A r \in DOMAIN runs :
    (apiKey /\ runs[r].pc = "resolved") =>
      LET s == Returned(r) IN
        /\ s # << >>
        /\ IsOutput(s[Len(s)])
        /\ runs[r].result =
             IF s[Len(s)] = runs[r].parsed /\ s[Len(s)].content = ""
             THEN "No response provided"
             ELSE s[Len(s)].content

\* Two resolved runs: one ended on a demand Step, with the output Step the
\* loop made of it last; one on the model's output Step without content.
C26_Witness ==
  \E r, q \in DOMAIN runs :
    /\ apiKey
    /\ runs[r].pc = "resolved" /\ IsStep(runs[r].parsed, "demand")
    /\ Returned(r) = <<runs[r].parsed, createOutputStep("done")>>
    /\ runs[r].result = "done"
    /\ runs[q].pc = "resolved" /\ IsOutput(runs[q].parsed)
    /\ Returned(q) = <<runs[q].parsed>>
    /\ runs[q].parsed.content = "" /\ runs[q].result = "No response provided"

\* Run r issues a model request in this step.
Requests(r) == r \in DOMAIN runs /\ runs'[r].nreq = runs[r].nreq + 1

\* Run r resolves in this step.
Resolves(r) ==
  runs'[r].pc = "resolved" /\ (r \in DOMAIN runs => runs[r].pc # "resolved")

\* C27 as stated: every model request is issued with a transcript whose
\* first message is the system message and whose last message has role
\* user; and whenever a run has resolved, the transcript's last message has
\* role assistant.
C27_RequestContext ==
  [][\A r \in DOMAIN runs' :
       /\ Requests(r) =>
            /\ messages # << >>
            /\ messages[1] = SystemMsg
            /\ messages[Len(messages)].role = "user"
       /\ Resolves(r) =>
            /\ messages' # << >>
            /\ messages'[Len(messages')].role = "assistant"]_vars

\* C27 as amended: the same, on every session that keeps a transcript, which
\* is every session but the one revision B makes for an empty apiKey: that
\* one resolves its runs without a transcript.
C27_RequestContextKept ==
  [][\A r \in DOMAIN runs' :
       ~IsStub =>
         /\ Requests(r) =>
              /\ messages[1] = SystemMsg
              /\ messages[Len(messages)].role = "user"
              /\ messages[Len(messages)] \in
                   {UserQuery, ContinuationPrompt, ObserveMsg(runs[r].toolResult)}
         /\ Resolves(r) =>
              /\ messages'[1] = SystemMsg
              /\ messages'[Len(messages')].role = "assistant"]_vars

\* A run resolved at its second request's answer: the transcript ends with a
\* user message and the assistant message of the last Step.
C27_Witness ==
  \E r \in DOMAIN runs :
    /\ ~IsStub /\ runs[r].pc = "resolved" /\ runs[r].nreq = 2
    /\ messages[1] = SystemMsg
    /\ messages[Len(messages) - 1].role = "user"
    /\ messages[Len(messages) - 1] # UserQuery
    /\ messages[Len(messages)] = AssistantMsg(runs[r].parsed)

\* C28: the tool dispatch guard.  A tool is invoked only for a model Step of
\* kind action that carries a non-empty function and an input, with that
\* Step's input, at most once for each model response, and with the Step as
\* the transcript's latest assistant message; and no tool is invoked after
\* an error, demand or output Step of the same run.
C28_ToolDispatchGuard ==
  [][\A r \in DOMAIN runs :
       runs'[r].calls # runs[r].calls =>
         LET step == runs'[r].parsed IN
           /\ IsStep(step, "action") /\ Truthy(step.function) /\ Truthy(step.input)
           /\ runs'[r].calls =
                Append(runs[r].calls, [function |-> step.function, input |-> step.input])
           /\ Len(runs'[r].calls) <= runs'[r].nreq
           /\ messages'[Len(messages')] = AssistantMsg(step)
           /\ \A i \in DOMAIN arrays'[stepsRef'] :
                ~TerminalStep(arrays'[stepsRef'][i])]_vars

====
